---- MODULE Spec2Model ----
(***************************************************************************)
(* Model of the golang runtime delegate                                    *)
(* (src/deploy/functions/runtimes/golang/index.ts): Delegate.serve, the    *)
(* stop handle it returns, and Delegate.discoverSpec, run by two           *)
(* concurrent callers on Node's single-threaded event loop.  Every action  *)
(* is one run-to-completion step between two suspension points (await,     *)
(* timer, event).  The child process, the web server it launches and the   *)
(* HTTP endpoints are the environment.                                     *)
(***************************************************************************)
EXTENDS Integers, Sequences, FiniteSets, TLC

\* ---------------------------------------------------------------- bounds
\* Number of build calls made one after the other.
MaxBuilds == 2
\* Number of ports the allocator scans upward from BasePort.
PortSpan == 5
\* Granularity of the model's clock, in milliseconds.
TickMs == 5000

\* ------------------------------------------------------------- constants
\* portfinder's first candidate port.
BasePort == 8000
\* The fixed port detectFromPort is pointed at (index.ts:160).
ProbePort == 8081
\* The delay given to setTimeout (index.ts:144).
GracePeriodMs == 10000

\* The two concurrent discoverSpec calls.
Calls == {"A", "B"}
NoPort == 0
Ports == BasePort .. (BasePort + PortSpan - 1)

\* -------------------------------------------------------- environments
Undefined == "<undefined>"
VarNames == {"FOO", "PORT", "ADMIN_PORT", "PATH", "GOPATH"}
NoEnv == [n \in VarNames |-> Undefined]

\* backend.EnvironmentVariables values a caller passes as envs.
EnvsChoices ==
  { NoEnv,
    [NoEnv EXCEPT !["FOO"] = "user"],
    [n \in VarNames |-> "user"] }

\* process.env of the CLI process.
ProcessEnvChoices ==
  { [NoEnv EXCEPT !["PATH"] = "/usr/bin"],
    [NoEnv EXCEPT !["PATH"] = "/usr/bin", !["GOPATH"] = "/go", !["FOO"] = "inherited"],
    [n \in VarNames |-> IF n = "PATH" THEN "/usr/bin" ELSE "inherited"] }

\* environmentVariables as found in the yaml file or reported by the server.
ReportedEnvChoices ==
  { NoEnv, [NoEnv EXCEPT !["FOO"] = "reported"] }

\* Object spread {...base, ...over}: own keys of over replace those of base.
Spread(base, over) ==
  [n \in VarNames |-> IF over[n] # Undefined THEN over[n] ELSE base[n]]

\* The env option serve builds for spawn (index.ts:117-124).  A key written
\* explicitly is set even when its value is undefined; spawn then drops it.
ServeEnvSpreadOnly(envs, penv, prt, admin) == Spread(envs, penv)

ServeEnv(envs, penv, prt, admin) ==
  [n \in VarNames |->
     CASE n = "GOPATH"     -> penv["GOPATH"]
       [] n = "PORT"       -> ToString(prt)
       [] n = "ADMIN_PORT" -> ToString(admin)
       [] n = "PATH"       -> penv["PATH"]
       [] OTHER            -> Spread(envs, penv)[n]]

\* ------------------------------------------------------------ backends
\* A backend.Backend as far as discoverSpec touches it; defined = FALSE is
\* JavaScript's undefined.
NoBackend == [defined |-> FALSE, origin |-> "none", environmentVariables |-> NoEnv]
Backend(orig, env) == [defined |-> TRUE, origin |-> orig, environmentVariables |-> env]

VARIABLES
  callers,      \* the discoverSpec calls made in this run
  processEnv,   \* process.env
  reported,     \* environmentVariables in the yaml file and in the server's answer
  crashed,      \* the CLI process died of an uncaught 'error' event
  pc,           \* where each discoverSpec call is suspended
  envs,         \* the envs argument of each call
  discovered,   \* the local variable discovered
  thrown,       \* the exception in flight through the finally block
  port,         \* the local variable port
  adminPort,    \* the local variable adminPort
  childProcess, \* Node's view of the spawned go runner
  childEnv,     \* the environment the child was given
  server,       \* the web server the go runner launches
  quitBy,       \* the calls whose quitquitquit request reached this server
  listeners,    \* exit/error listeners registered by the stop handle
  p,            \* the promise p of the stop handle
  fetch,        \* the admin shutdown request: none, pending, resolved, rejected
  timer,        \* the forced-kill timer
  elapsed,      \* milliseconds since the timer was armed
  killed,       \* childProcess.killed
  killCalls,    \* calls of childProcess.kill
  spawns,       \* children spawned by each call
  yamlFound,    \* detectFromYaml returned a backend
  probes,       \* detectFromPort calls made
  portsAsked,   \* portfinder.getPort calls made
  stops,        \* stop handle invocations
  stopsDone,    \* stop handle invocations that ran until p settled
  result,       \* how the promise of discoverSpec settled
  error,        \* what discoverSpec rejected with
  returned      \* what discoverSpec resolved with

\* The state of Delegate.serve and Delegate.discoverSpec.
discoverVars ==
  <<callers, processEnv, reported, crashed, pc, envs, discovered, thrown, port, adminPort,
    childProcess, childEnv, server, quitBy, listeners, p, fetch,
    timer, elapsed, killed, killCalls, spawns, yamlFound, probes,
    portsAsked, stops, stopsDone, result, error, returned>>

VARIABLES
  goMod,         \* the go.mod file under the source directory
  configRuntime, \* options.config.get("functions.runtime")
  createPc,      \* where tryCreateDelegate is suspended
  created        \* how the promise of tryCreateDelegate settled

\* The state of tryCreateDelegate.
createVars == <<goMod, configRuntime, createPc, created>>

\* What tryCreateDelegate settles with: undefined, a Delegate, or an error
\* whose message is the sequence of the pieces of its template literal.
Pending == [kind |-> "pending", runtime |-> Undefined, message |-> <<>>]
ReturnsUndefined == [kind |-> "undefined", runtime |-> Undefined, message |-> <<>>]
Delegate(rt) == [kind |-> "Delegate", runtime |-> rt, message |-> <<>>]
FirebaseError(msg) == [kind |-> "FirebaseError", runtime |-> Undefined, message |-> msg]

\* tryCreateDelegate has not been called.
CreateIdle ==
  /\ goMod = [exists |-> FALSE, parses |-> FALSE, module |-> "", version |-> ""]
  /\ configRuntime = Undefined
  /\ createPc = "idle"
  /\ created = Pending

VARIABLES
  sourceDir,    \* this.sourceDir, as its path segments
  autogenDir,   \* whether sourceDir/autogen exists
  mainGo,       \* the content of autogen/main.go
  buildPc,      \* where build is suspended
  builds,       \* build calls made so far
  mkdirErr,     \* what mkdir of the current build failed with, or "ok"
  codegenRuns,  \* invocations of the code-generation command by the current build
  getDeps,      \* what spawn.sync returned to the current build
  writes,       \* writeFile calls on autogen/main.go by the current build
  built         \* how the promise of build settled

\* The state of Delegate.build.
buildVars == <<sourceDir, autogenDir, mainGo, buildPc, builds, mkdirErr,
               codegenRuns, getDeps, writes, built>>

\* JavaScript's null or undefined, where a list may stand.
Null == "<null>"
\* The status of a spawn.sync result is a number or null.
NullStatus == -1
NoFile == "<no file>"
\* A Buffer holding the bytes of text, and null where a Buffer may stand.
Buffer(text) == <<"Buffer", text>>
NullBuffer == <<"null", "">>
NotRun == [status |-> NullStatus, stdout |-> NullBuffer, stderr |-> NullBuffer]
NotBuilt == [kind |-> "pending", text |-> "", children |-> <<>>]

\* build has not been called.
BuildIdle ==
  /\ sourceDir = <<"proj", "functions">>
  /\ autogenDir = FALSE
  /\ mainGo = NoFile
  /\ buildPc = "idle"
  /\ builds = 0
  /\ mkdirErr = "none"
  /\ codegenRuns = 0
  /\ getDeps = NotRun
  /\ writes = 0
  /\ built = NotBuilt

VARIABLES
  hosting,      \* context.hosting
  hostingChannel, \* context.hostingChannel
  releasePc,    \* where release is suspended
  lookups,      \* needProjectNumber calls
  deployPc,     \* where the async callback of each deploy is
  patches,      \* the finalize PATCH of each deploy
  posts,        \* the release POST of each deploy
  order,        \* REST calls in the order they were issued
  released      \* how the promise of release settled

\* The state of the hosting release().
releaseVars == <<hosting, hostingChannel, releasePc, lookups, deployPc, patches, posts, order, released>>

\* release has not been called.
ReleaseIdle ==
  /\ hosting = [present |-> FALSE, hasDeploys |-> FALSE, deploys |-> <<>>]
  /\ hostingChannel = Undefined
  /\ releasePc = "idle"
  /\ lookups = 0
  /\ deployPc = <<>>
  /\ patches = <<>>
  /\ posts = <<>>
  /\ order = <<>>
  /\ released = "pending"

\* The variables the discoverSpec steps leave alone.
otherVars == <<createVars, buildVars, releaseVars>>

vars == <<discoverVars, otherVars>>

\* One caller with every choice of inputs, or two concurrent callers with
\* one choice of inputs (the callers' envs differing).
Inputs ==
  /\ callers \in {{"A"}, Calls}
  /\ processEnv \in ProcessEnvChoices
  /\ reported \in ReportedEnvChoices
  /\ envs \in [Calls -> EnvsChoices]
  /\ IF callers = Calls
       THEN /\ processEnv = [n \in VarNames |-> IF n = "PATH" THEN "/usr/bin" ELSE "inherited"]
            /\ reported = [NoEnv EXCEPT !["FOO"] = "reported"]
            /\ envs = [c \in Calls |-> IF c = "A" THEN [NoEnv EXCEPT !["FOO"] = "user"]
                                                  ELSE [n \in VarNames |-> "user"]]
       ELSE envs["B"] = NoEnv

\* No discoverSpec call has started.
DiscoverStart ==
  /\ crashed = FALSE
  /\ pc = [c \in Calls |-> "idle"]
  /\ discovered = [c \in Calls |-> NoBackend]
  /\ thrown = [c \in Calls |-> "none"]
  /\ port = [c \in Calls |-> NoPort]
  /\ adminPort = [c \in Calls |-> NoPort]
  /\ childProcess = [c \in Calls |-> "none"]
  /\ childEnv = [c \in Calls |-> NoEnv]
  /\ server = [c \in Calls |-> "down"]
  /\ quitBy = [c \in Calls |-> {}]
  /\ listeners = [c \in Calls |-> FALSE]
  /\ p = [c \in Calls |-> "none"]
  /\ fetch = [c \in Calls |-> "none"]
  /\ timer = [c \in Calls |-> "unarmed"]
  /\ elapsed = [c \in Calls |-> 0]
  /\ killed = [c \in Calls |-> FALSE]
  /\ killCalls = [c \in Calls |-> 0]
  /\ spawns = [c \in Calls |-> 0]
  /\ yamlFound = [c \in Calls |-> FALSE]
  /\ probes = [c \in Calls |-> 0]
  /\ portsAsked = [c \in Calls |-> 0]
  /\ stops = [c \in Calls |-> 0]
  /\ stopsDone = [c \in Calls |-> 0]
  /\ result = [c \in Calls |-> "pending"]
  /\ error = [c \in Calls |-> "none"]
  /\ returned = [c \in Calls |-> NoBackend]

\* discoverSpec is never called.
DiscoverIdle ==
  /\ callers = {}
  /\ processEnv = [NoEnv EXCEPT !["PATH"] = "/usr/bin"]
  /\ reported = NoEnv
  /\ envs = [c \in Calls |-> NoEnv]
  /\ DiscoverStart

Init ==
  /\ Inputs
  /\ DiscoverStart
  /\ CreateIdle
  /\ BuildIdle
  /\ ReleaseIdle

\* ------------------------------------------------------ port allocator
\* Ports some running web server listens on.
BoundPorts == UNION {{port[c], adminPort[c]} : c \in {d \in Calls : server[d] = "up"}}

Lowest(S) == CHOOSE x \in S : \A y \in S : x <= y

\* portfinder.getPort(): the first port from BasePort upward that nothing
\* is bound to at the moment of the call; it reserves nothing.
GetPort == Lowest(Ports \ BoundPorts)

\* ------------------------------------------------- discoverSpec, settle
\* index.ts:165: discovered.environmentVariables = envs
AssignKeepReported(d, e) == d

AssignEnvironmentVariables(d, e) == [d EXCEPT !.environmentVariables = e]

\* The promise of discoverSpec rejects with e.
Reject(c, e) ==
  /\ result' = [result EXCEPT ![c] = "rejected"]
  /\ error' = [error EXCEPT ![c] = e]
  /\ pc' = [pc EXCEPT ![c] = "done"]
  /\ UNCHANGED returned

\* index.ts:165-166, run synchronously once discovered is known.  Writing a
\* property of undefined throws a TypeError.
Return(c, d) ==
  IF d.defined
    THEN /\ returned' = [returned EXCEPT ![c] = AssignEnvironmentVariables(d, envs[c])]
         /\ result' = [result EXCEPT ![c] = "resolved"]
         /\ pc' = [pc EXCEPT ![c] = "done"]
         /\ UNCHANGED error
    ELSE Reject(c, "TypeError")

\* index.ts:149-153: the call starts and suspends on detectFromYaml.
DiscoverSpec(c) ==
  /\ ~crashed
  /\ c \in callers
  /\ pc[c] = "idle"
  /\ pc' = [pc EXCEPT ![c] = "detectFromYaml"]
  /\ UNCHANGED <<otherVars, callers, processEnv, reported, crashed, envs, discovered, thrown, port, adminPort,
                 childProcess, childEnv, server, quitBy, listeners, p, fetch,
                 timer, elapsed, killed, killCalls, spawns, yamlFound, probes,
                 portsAsked, stops, stopsDone, result, error, returned>>

\* The guard of index.ts:154.
DynamicPathIgnoringYaml(d) == TRUE

DynamicPath(d) == ~d.defined

\* index.ts:153-155 and 165-166: detectFromYaml settles.  It returns a
\* backend, returns undefined, or throws.
DetectFromYamlReturn(c) ==
  /\ ~crashed
  /\ pc[c] = "detectFromYaml"
  /\ \/ LET d == Backend("yaml", reported) IN
          /\ discovered' = [discovered EXCEPT ![c] = d]
          /\ yamlFound' = [yamlFound EXCEPT ![c] = TRUE]
          /\ IF DynamicPath(d)
               THEN /\ pc' = [pc EXCEPT ![c] = "getPort"]
                    /\ UNCHANGED <<result, error, returned>>
               ELSE Return(c, d)
     \/ /\ discovered' = [discovered EXCEPT ![c] = NoBackend]
        /\ IF DynamicPath(NoBackend)
             THEN /\ pc' = [pc EXCEPT ![c] = "getPort"]
                  /\ UNCHANGED <<result, error, returned>>
             ELSE Return(c, NoBackend)
        /\ UNCHANGED yamlFound
     \/ /\ Reject(c, "yamlError")
        /\ UNCHANGED <<discovered, yamlFound>>
  /\ UNCHANGED <<otherVars, callers, processEnv, reported, crashed, envs, thrown, port, adminPort,
                 childProcess, childEnv, server, quitBy, listeners, p, fetch,
                 timer, elapsed, killed, killCalls, spawns, probes,
                 portsAsked, stops, stopsDone>>

\* index.ts:155: the first getPort settles.  The two servers of a run bind
\* fewer ports than Ports holds, so a free one is always found.
GetPrimaryPort(c) ==
  /\ ~crashed
  /\ pc[c] = "getPort"
  /\ Ports \ BoundPorts # {}
  /\ port' = [port EXCEPT ![c] = GetPort]
  /\ portsAsked' = [portsAsked EXCEPT ![c] = @ + 1]
  /\ pc' = [pc EXCEPT ![c] = "getAdminPort"]
  /\ UNCHANGED <<otherVars, callers, processEnv, reported, crashed, envs, discovered, thrown, adminPort,
                 childProcess, childEnv, server, quitBy, listeners, p, fetch,
                 timer, elapsed, killed, killCalls, spawns, yamlFound, probes,
                 stops, stopsDone, result, error, returned>>

\* index.ts:156-160 with 116-131: the second getPort settles; serve spawns
\* the child with the merged environment and returns the stop handle (an
\* already resolved promise); detectFromPort is called.
GetAdminPortAndServe(c) ==
  /\ ~crashed
  /\ pc[c] = "getAdminPort"
  /\ Ports \ BoundPorts # {}
  /\ adminPort' = [adminPort EXCEPT ![c] = GetPort]
  /\ portsAsked' = [portsAsked EXCEPT ![c] = @ + 1]
  /\ childProcess' = [childProcess EXCEPT ![c] = "running"]
  /\ childEnv' = [childEnv EXCEPT ![c] =
                    ServeEnv(envs[c], processEnv, port[c], adminPort'[c])]
  /\ spawns' = [spawns EXCEPT ![c] = @ + 1]
  /\ probes' = [probes EXCEPT ![c] = @ + 1]
  /\ pc' = [pc EXCEPT ![c] = "detectFromPort"]
  /\ UNCHANGED <<otherVars, callers, processEnv, reported, crashed, envs, discovered, thrown, port,
                 server, quitBy, listeners, p, fetch,
                 timer, elapsed, killed, killCalls, yamlFound,
                 stops, stopsDone, result, error, returned>>

\* Who answers an HTTP request to a local port: the calls whose server is
\* up and listens on it.
Listening(prt) == {c \in Calls : server[c] = "up" /\ prt \in {port[c], adminPort[c]}}

\* What answers the probe of index.ts:160: a child's server when it is the
\* one bound to ProbePort, otherwise whatever else runs there.
ProbeResponders == IF Listening(ProbePort) # {} THEN Listening(ProbePort) ELSE {"foreign"}

\* index.ts:160-162 with 131-139: detectFromPort settles (a backend,
\* undefined, or an error); the finally block invokes the stop handle, which
\* registers its listeners and issues the admin request.
DetectFromPortReturn(c) ==
  /\ ~crashed
  /\ pc[c] = "detectFromPort"
  /\ \/ \E o \in ProbeResponders :
          /\ discovered' = [discovered EXCEPT ![c] = Backend(o, reported)]
          /\ UNCHANGED thrown
     \/ /\ discovered' = [discovered EXCEPT ![c] = NoBackend]
        /\ UNCHANGED thrown
     \/ /\ thrown' = [thrown EXCEPT ![c] = "probeError"]
        /\ UNCHANGED discovered
  /\ stops' = [stops EXCEPT ![c] = @ + 1]
  /\ listeners' = [listeners EXCEPT ![c] = TRUE]
  /\ p' = [p EXCEPT ![c] = "pending"]
  /\ fetch' = [fetch EXCEPT ![c] = "pending"]
  /\ pc' = [pc EXCEPT ![c] = "fetch"]
  /\ UNCHANGED <<otherVars, callers, processEnv, reported, crashed, envs, port, adminPort,
                 childProcess, childEnv, server, quitBy,
                 timer, elapsed, killed, killCalls, spawns, yamlFound, probes,
                 portsAsked, stopsDone, result, error, returned>>

\* ---------------------------------------------------- the stop handle
\* index.ts:139: the outcome of fetch(http://localhost:adminPort/quitquitquit).
\* It resolves on any HTTP response and rejects when nothing listens.
FetchResolves(c) == Listening(adminPort[c]) # {}

\* index.ts:139-145 and 161-166: the admin request settles.  When it
\* resolves, the forced-kill timer is armed and the handle returns p.  When
\* it rejects, the await throws out of the stop handle: no timer is armed,
\* the handle's promise rejects, and so does discoverSpec, from the finally.
FetchReturn(c) ==
  /\ ~crashed
  /\ pc[c] = "fetch"
  /\ IF FetchResolves(c)
       THEN /\ quitBy' = [d \in Calls |->
                            IF server[d] = "up" /\ adminPort[d] = adminPort[c]
                              THEN quitBy[d] \cup {c} ELSE quitBy[d]]
            /\ fetch' = [fetch EXCEPT ![c] = "resolved"]
            /\ timer' = [timer EXCEPT ![c] = "armed"]
            /\ pc' = [pc EXCEPT ![c] = "awaitP"]
            /\ UNCHANGED <<result, error, returned>>
       ELSE /\ fetch' = [fetch EXCEPT ![c] = "rejected"]
            /\ Reject(c, "fetchError")
            /\ UNCHANGED <<quitBy, timer>>
  /\ UNCHANGED <<otherVars, callers, processEnv, reported, crashed, envs, discovered, thrown, port, adminPort,
                 childProcess, childEnv, server, listeners, p,
                 elapsed, killed, killCalls, spawns, yamlFound, probes,
                 portsAsked, stops, stopsDone>>

\* What the 'exit' event does to p (index.ts:133).
OnExit(c) == IF listeners[c] /\ p[c] = "pending" THEN "resolved" ELSE p[c]

\* index.ts:145 and 161-166: p has settled, so the stop handle's promise
\* settles like it and the finally block ends: a rejection of the handle
\* replaces whatever the try block threw, otherwise that error is rethrown,
\* otherwise the function goes on to return.
KillReturn(c) ==
  /\ ~crashed
  /\ pc[c] = "awaitP"
  /\ p[c] # "pending"
  /\ stopsDone' = [stopsDone EXCEPT ![c] = @ + 1]
  /\ IF p[c] = "rejected"
       THEN Reject(c, "childError")
       ELSE IF thrown[c] # "none"
              THEN Reject(c, thrown[c])
              ELSE Return(c, discovered[c])
  /\ UNCHANGED <<otherVars, callers, processEnv, reported, crashed, envs, discovered, thrown, port, adminPort,
                 childProcess, childEnv, server, quitBy, listeners, p, fetch,
                 timer, elapsed, killed, killCalls, spawns, yamlFound, probes,
                 portsAsked, stops>>

\* Time passes for an armed timer.
Tick(c) ==
  /\ ~crashed
  /\ timer[c] = "armed"
  /\ elapsed[c] < GracePeriodMs
  /\ elapsed' = [elapsed EXCEPT ![c] =
                   IF @ + TickMs > GracePeriodMs THEN GracePeriodMs ELSE @ + TickMs]
  /\ UNCHANGED <<otherVars, callers, processEnv, reported, crashed, pc, envs, discovered, thrown, port, adminPort,
                 childProcess, childEnv, server, quitBy, listeners, p, fetch,
                 timer, killed, killCalls, spawns, yamlFound, probes,
                 portsAsked, stops, stopsDone, result, error, returned>>

\* setTimeout(..., 10_000): when the callback becomes due.
TimerDueAtOnce(c) == TRUE

TimerDue(c) == elapsed[c] >= GracePeriodMs

\* ChildProcess.kill: the signal goes out only while Node still holds the
\* process handle, which it drops when the child exits.
SignalSentBlindly(c) == TRUE

SignalSent(c) == childProcess[c] = "running"

\* index.ts:140-144: the timer callback.  killed is set only by a
\* successful kill, so the guard lets the one callback through.  SIGKILL
\* ends the go runner at once; the web server it launched keeps running
\* (index.ts:137-138).
TimerFire(c) ==
  /\ ~crashed
  /\ timer[c] = "armed"
  /\ TimerDue(c)
  /\ timer' = [timer EXCEPT ![c] = "fired"]
  /\ IF ~killed[c]
       THEN /\ killCalls' = [killCalls EXCEPT ![c] = @ + 1]
            /\ IF SignalSent(c)
                 THEN /\ killed' = [killed EXCEPT ![c] = TRUE]
                      /\ childProcess' = [childProcess EXCEPT ![c] = "exited"]
                      /\ p' = [p EXCEPT ![c] = OnExit(c)]
                 ELSE UNCHANGED <<killed, childProcess, p>>
       ELSE UNCHANGED <<killCalls, killed, childProcess, p>>
  /\ UNCHANGED <<otherVars, callers, processEnv, reported, crashed, pc, envs, discovered, thrown, port, adminPort,
                 childEnv, server, quitBy, listeners, fetch,
                 elapsed, spawns, yamlFound, probes,
                 portsAsked, stops, stopsDone, result, error, returned>>

\* ------------------------------------------------------ the environment
\* The go runner has built the program and its web server starts listening
\* on PORT and ADMIN_PORT, provided no other server holds them.
ServerStart(c) ==
  /\ ~crashed
  /\ childProcess[c] = "running"
  /\ server[c] = "down"
  /\ {port[c], adminPort[c]} \cap BoundPorts = {}
  /\ server' = [server EXCEPT ![c] = "up"]
  /\ UNCHANGED <<otherVars, callers, processEnv, reported, crashed, pc, envs, discovered, thrown, port, adminPort,
                 childProcess, childEnv, quitBy, listeners, p, fetch,
                 timer, elapsed, killed, killCalls, spawns, yamlFound, probes,
                 portsAsked, stops, stopsDone, result, error, returned>>

\* The go runner exits on its own account (the program ended, the build
\* failed, it obeyed quitquitquit) or is killed from outside, in which case
\* its web server may stay up.  Node emits 'exit'.
ChildExit(c) ==
  /\ ~crashed
  /\ childProcess[c] = "running"
  /\ childProcess' = [childProcess EXCEPT ![c] = "exited"]
  /\ p' = [p EXCEPT ![c] = OnExit(c)]
  /\ \/ UNCHANGED server
     \/ /\ server[c] = "up"
        /\ server' = [server EXCEPT ![c] = "stopped"]
  /\ UNCHANGED <<otherVars, callers, processEnv, reported, crashed, pc, envs, discovered, thrown, port, adminPort,
                 childEnv, quitBy, listeners, fetch,
                 timer, elapsed, killed, killCalls, spawns, yamlFound, probes,
                 portsAsked, stops, stopsDone, result, error, returned>>

\* The go runner could not be launched: Node emits 'error' (index.ts:134).
\* An 'error' event nobody listens for is thrown and ends the CLI process.
ChildError(c) ==
  /\ ~crashed
  /\ childProcess[c] = "running"
  /\ server[c] = "down"
  /\ childProcess' = [childProcess EXCEPT ![c] = "failed"]
  /\ IF listeners[c]
       THEN /\ p' = [p EXCEPT ![c] = IF @ = "pending" THEN "rejected" ELSE @]
            /\ UNCHANGED crashed
       ELSE /\ crashed' = TRUE
            /\ UNCHANGED p
  /\ UNCHANGED <<otherVars, callers, processEnv, reported, pc, envs, discovered, thrown, port, adminPort,
                 childEnv, server, quitBy, listeners, fetch,
                 timer, elapsed, killed, killCalls, spawns, yamlFound, probes,
                 portsAsked, stops, stopsDone, result, error, returned>>

\* A web server whose go runner is gone stops.
ServerStop(c) ==
  /\ ~crashed
  /\ server[c] = "up"
  /\ childProcess[c] # "running"
  /\ server' = [server EXCEPT ![c] = "stopped"]
  /\ UNCHANGED <<otherVars, callers, processEnv, reported, crashed, pc, envs, discovered, thrown, port, adminPort,
                 childProcess, childEnv, quitBy, listeners, p, fetch,
                 timer, elapsed, killed, killCalls, spawns, yamlFound, probes,
                 portsAsked, stops, stopsDone, result, error, returned>>

Next ==
  \E c \in Calls :
    \/ DiscoverSpec(c)
    \/ DetectFromYamlReturn(c)
    \/ GetPrimaryPort(c)
    \/ GetAdminPortAndServe(c)
    \/ DetectFromPortReturn(c)
    \/ FetchReturn(c)
    \/ KillReturn(c)
    \/ Tick(c)
    \/ TimerFire(c)
    \/ ServerStart(c)
    \/ ChildExit(c)
    \/ ChildError(c)
    \/ ServerStop(c)

Spec == Init /\ [][Next]_vars

\* ================================================================ claims
Settled(c) == result[c] # "pending"
\* The call took the dynamic path as far as launching its child.
Launched(c) == spawns[c] > 0

\* C1: when detectFromYaml yields nothing, exactly one child is launched and
\* exactly one stop sequence has run to completion by the time discoverSpec
\* resolves or rejects, and the launched child is no longer alive then.
C1_StoppedBeforeReturn ==
  \A c \in Calls :
    (Settled(c) /\ portsAsked[c] > 0) =>
      /\ spawns[c] = 1
      /\ stops[c] = 1
      /\ stopsDone[c] = 1
      /\ childProcess[c] # "running"

\* C2: when the admin shutdown request fails, the shutdown sequence goes
\* on: the forced-kill timer is armed and the stop handle (hence
\* discoverSpec) does not reject because of the failed request.
C2_FailedRequestDoesNotAbort ==
  \A c \in Calls :
    fetch[c] = "rejected" =>
      /\ timer[c] # "unarmed"
      /\ error[c] # "fetchError"

\* Steps that can still settle the stop handle of call c.
StopProgress(c) ==
  \/ FetchReturn(c)
  \/ KillReturn(c)
  \/ Tick(c)
  \/ TimerFire(c)
  \/ ChildExit(c)
  \/ ChildError(c)

\* C3: once invoked, the stop handle's promise settles in every execution:
\* whenever nothing is left that could act on it (request answered, timer
\* fired, child gone), it has settled.
C3_StopHandleSettles ==
  \A c \in Calls :
    (stops[c] > 0 /\ ~crashed /\ ~ENABLED StopProgress(c)) => Settled(c)

\* C4: when detectFromYaml returns a backend, the dynamic path is never
\* entered: no port is allocated, no child is spawned, no probe is made and
\* no stop handle is invoked.
C4_YamlSkipsDynamicPath ==
  \A c \in Calls :
    yamlFound[c] =>
      /\ portsAsked[c] = 0 /\ port[c] = NoPort /\ adminPort[c] = NoPort
      /\ spawns[c] = 0 /\ childProcess[c] = "none"
      /\ probes[c] = 0
      /\ stops[c] = 0 /\ fetch[c] = "none" /\ timer[c] = "unarmed"

C4_Witness ==
  \E c \in Calls : yamlFound[c] /\ result[c] = "resolved"

\* C5: when detectFromPort fails, the stop handle is invoked and discoverSpec
\* then rejects with that same probe error; no failure of the cleanup
\* replaces it.
C5_ProbeErrorRethrown ==
  \A c \in Calls :
    (thrown[c] = "probeError" /\ Settled(c)) =>
      /\ stops[c] = 1
      /\ result[c] = "rejected"
      /\ error[c] = "probeError"

\* C6: whenever discoverSpec returns a backend, its environmentVariables
\* field equals the envs argument, on the static and on the dynamic path,
\* whatever the file or the server reported.
C6_ReturnedEnvIsEnvs ==
  \A c \in Calls :
    result[c] = "resolved" =>
      /\ returned[c].defined
      /\ returned[c].environmentVariables = envs[c]

C6_Witness ==
  /\ result["A"] = "resolved" /\ returned["A"].origin = "yaml"
  /\ result["B"] = "resolved" /\ returned["B"].origin # "yaml" /\ Launched("B")
  /\ reported # envs["A"] /\ reported # envs["B"]

\* Names serve sets itself, whatever envs and process.env hold.
Injected == {"PORT", "ADMIN_PORT", "PATH", "GOPATH"}

\* C7: in the environment given to the child, envs win over the inherited
\* process environment for every name set in both, the injected names
\* aside.
C7_EnvsOverrideInherited ==
  \A c \in Calls :
    Launched(c) =>
      \A n \in VarNames \ Injected :
        (envs[c][n] # Undefined /\ processEnv[n] # Undefined) =>
          childEnv[c][n] = envs[c][n]

\* C8: two concurrent calls on the dynamic path share nothing: their ports
\* are pairwise different, a call's shutdown request reaches only the
\* server of its own child, and a returned backend comes from a probe of
\* the call's own server.
C8_ConcurrentCallsShareNothing ==
  \A c, d \in Calls :
    (c # d /\ Launched(c) /\ Launched(d)) =>
      /\ {port[c], adminPort[c]} \cap {port[d], adminPort[d]} = {}
      /\ quitBy[c] \subseteq {c}
      /\ (result[c] = "resolved" => returned[c].origin = c)

\* C9: the admin request is sent before the forced-kill timer is armed, and
\* SIGKILL is sent only after the request was issued and the grace period
\* has elapsed since the timer was armed.
C9_GracefulBeforeForced ==
  \A c \in Calls :
    /\ timer[c] # "unarmed" => fetch[c] = "resolved"
    /\ killCalls[c] > 0 =>
         /\ fetch[c] # "none"
         /\ timer[c] = "fired"
         /\ elapsed[c] >= GracePeriodMs

C9_Witness ==
  \E c \in Calls : killed[c] /\ childProcess[c] = "exited" /\ result[c] = "resolved"

C15_PortsDistinct ==
  \A c \in Calls :
    (callers = {c} /\ Launched(c)) => port[c] # adminPort[c]

\* C16: the child launched by serve receives PORT equal to the port
\* argument and ADMIN_PORT equal to the adminPort argument, and its PATH and
\* GOPATH are those of the parent process, whatever envs and the inherited
\* environment define for these names.
C16_InjectedNamesWin ==
  \A c \in Calls :
    Launched(c) =>
      /\ childEnv[c]["PORT"] = ToString(port[c])
      /\ childEnv[c]["ADMIN_PORT"] = ToString(adminPort[c])
      /\ childEnv[c]["PATH"] = processEnv["PATH"]
      /\ childEnv[c]["GOPATH"] = processEnv["GOPATH"]

C16_Witness ==
  \E c \in Calls :
    /\ Launched(c)
    /\ \A n \in Injected : envs[c][n] = "user"
    /\ processEnv["PORT"] = "inherited"
    /\ processEnv["ADMIN_PORT"] = "inherited"

\* ==================================================== tryCreateDelegate
\* index.ts:18-20.
VERSION_TO_RUNTIME == [v \in {"1.13"} |-> "go113"]
\* Object.keys(VERSION_TO_RUNTIME), in insertion order.
ObjectKeys == <<"1.13">>

RECURSIVE Join(_, _)
\* Array.prototype.join.
Join(parts, sep) ==
  IF parts = <<>> THEN ""
  ELSE IF Len(parts) = 1 THEN parts[1]
  ELSE parts[1] \o sep \o Join(Tail(parts), sep)

\* JavaScript truthiness of a string-or-undefined value.
Truthy(x) == x \notin {Undefined, ""}

\* go.mod files: unreadable, readable but rejected by the parser, or
\* declaring a module and possibly a go version.
ModuleNames == {"example.com/fns", "acme"}
DeclaredVersions == {"", "1.11", "1.13", "1.16", "9.99"}
GoModChoices ==
  { [exists |-> FALSE, parses |-> FALSE, module |-> "", version |-> ""],
    [exists |-> TRUE, parses |-> FALSE, module |-> "", version |-> ""] }
  \cup [exists : {TRUE}, parses : {TRUE}, module : ModuleNames, version : DeclaredVersions]
\* Values of functions.runtime in firebase.json.
ConfigRuntimeChoices == {Undefined, "", "go113", "nodejs14"}

\* index.ts:43-44: reading and parsing succeed; either failing throws into
\* the one catch block.
ReadAndParseOk(g) == g.exists /\ g.parses

\* index.ts:55 and 64: VERSION_TO_RUNTIME[module.version].
LookupWithDefault(v) ==
  IF v \in DOMAIN VERSION_TO_RUNTIME THEN VERSION_TO_RUNTIME[v] ELSE "go113"

Lookup(v) ==
  IF v \in DOMAIN VERSION_TO_RUNTIME THEN VERSION_TO_RUNTIME[v] ELSE Undefined

\* index.ts:50-51: a runtime is configured.
HasOverrideNever(r) == FALSE

HasOverride(r) == Truthy(r)

\* index.ts:56-62: the message of the unsupported-version error.
UnsupportedMessage(v) ==
  << "go.mod specifies Golang version ", v,
     " which is unsupported by Google Cloud Functions. Valid values are ",
     Join(ObjectKeys, ", ") >>

\* index.ts:50-67: what tryCreateDelegate settles with once go.mod is parsed.
Construct(g, r) ==
  IF HasOverride(r) THEN Delegate(r)
  ELSE IF ~Truthy(g.version)
    THEN FirebaseError(<<"Could not detect Golang version from go.mod">>)
  ELSE IF ~Truthy(Lookup(g.version))
    THEN FirebaseError(UnsupportedMessage(g.version))
  ELSE Delegate(Lookup(g.version))

CreateInit ==
  /\ DiscoverIdle /\ BuildIdle /\ ReleaseIdle
  /\ goMod \in GoModChoices
  /\ configRuntime \in ConfigRuntimeChoices
  /\ createPc = "idle"
  /\ created = Pending

\* index.ts:36-43: the call suspends on reading go.mod.
TryCreateDelegate ==
  /\ createPc = "idle"
  /\ createPc' = "readFile"
  /\ UNCHANGED <<goMod, configRuntime, created, discoverVars, buildVars, releaseVars>>

\* index.ts:43-67: readFile settles and the function runs to its end.
ReadFileReturn ==
  /\ createPc = "readFile"
  /\ createPc' = "done"
  /\ created' = IF ReadAndParseOk(goMod)
                  THEN Construct(goMod, configRuntime)
                  ELSE ReturnsUndefined
  /\ UNCHANGED <<goMod, configRuntime, discoverVars, buildVars, releaseVars>>

CreateNext ==
  \/ TryCreateDelegate
  \/ ReadFileReturn

\* tryCreateDelegate alone, over every go.mod and configured runtime.
CreateSpec == CreateInit /\ [][CreateNext]_vars

\* --------------------------------------------- claims, tryCreateDelegate
Range(f) == {f[i] : i \in DOMAIN f}
Created == createPc = "done"

\* C11: a go.mod that cannot be read makes tryCreateDelegate return
\* undefined, and a go.mod that is read but fails to parse does not give
\* that same result.
C11_ParseFailureDistinguished ==
  Created =>
    /\ ~goMod.exists => created = ReturnsUndefined
    /\ (goMod.exists /\ ~goMod.parses) => created # ReturnsUndefined

\* The go.mod was parsed and declares a version the table has no key for.
DeclaresUnsupported ==
  /\ ReadAndParseOk(goMod)
  /\ goMod.version # ""
  /\ goMod.version \notin DOMAIN VERSION_TO_RUNTIME

NamesVersionAndValidValues ==
  /\ created.kind = "FirebaseError"
  /\ goMod.version \in Range(created.message)
  /\ Join(ObjectKeys, ", ") \in Range(created.message)

C13_RuntimeFromTableOrOverride ==
  (Created /\ ReadAndParseOk(goMod)) =>
    /\ (goMod.version \in DOMAIN VERSION_TO_RUNTIME /\ ~Truthy(configRuntime)) =>
         created = Delegate(VERSION_TO_RUNTIME[goMod.version])
    /\ (goMod.version = "1.13" /\ ~Truthy(configRuntime)) =>
         created.runtime = "go113"
    /\ Truthy(configRuntime) => created = Delegate(configRuntime)

C13_Witness ==
  /\ Created /\ goMod.version = "1.13" /\ configRuntime = Undefined
  /\ created = Delegate("go113")

\* ======================================================= Delegate.build
\* Buffer.prototype.toString.
BufferToString(b) == b[2]

\* Source directories; the second has a path segment spelling an errno name.
SourceDirChoices == { <<"proj", "functions">>, <<"proj", "EEXIST", "functions">> }
\* What can make mkdir fail besides the directory existing.
MkdirFaults == {"none", "EACCES", "ENOENT"}

\* What spawn.sync returns: exit with status 0, exit with another status,
\* death by a signal (status null), or no launch at all (null streams).
CodegenOutcomes ==
  { [status |-> 0, stdout |-> Buffer("package main // one"), stderr |-> Buffer("")],
    [status |-> 0, stdout |-> Buffer("package main // two"), stderr |-> Buffer("warning")],
    [status |-> 1, stdout |-> Buffer(""), stderr |-> Buffer("module not found")],
    [status |-> NullStatus, stdout |-> Buffer(""), stderr |-> Buffer("killed")],
    [status |-> NullStatus, stdout |-> NullBuffer, stderr |-> NullBuffer] }

\* The message of the error mkdir rejects with: the errno name, a
\* description, the system call and the path, here piece by piece.
MkdirMessage(code, dir) ==
  <<code, ": ", "mkdir", " '">> \o dir \o <<"autogen", "'">>

\* index.ts:90: /EEXIST/.exec(err?.message), a search of the whole message.
IsEEXIST(msg) == \E i \in DOMAIN msg : msg[i] = "EEXIST"

\* index.ts:98: getDeps.status != 0.
StatusFailed(out) == out.status # 0

BuildInit ==
  /\ DiscoverIdle /\ CreateIdle /\ ReleaseIdle
  /\ sourceDir \in SourceDirChoices
  /\ autogenDir \in BOOLEAN
  /\ mainGo \in IF autogenDir THEN {NoFile, "package main // old"} ELSE {NoFile}
  /\ buildPc = "idle"
  /\ builds = 0
  /\ mkdirErr = "none"
  /\ codegenRuns = 0
  /\ getDeps = NotRun
  /\ writes = 0
  /\ built = NotBuilt

\* index.ts:86-88: build is called and suspends on mkdir.
Build ==
  /\ buildPc \in {"idle", "done"}
  /\ builds < MaxBuilds
  /\ builds' = builds + 1
  /\ buildPc' = "mkdir"
  /\ mkdirErr' = "none"
  /\ codegenRuns' = 0
  /\ getDeps' = NotRun
  /\ writes' = 0
  /\ built' = NotBuilt
  /\ UNCHANGED <<sourceDir, autogenDir, mainGo, discoverVars, createVars, releaseVars>>

\* index.ts:94-103: the code-generation command runs synchronously; on
\* status 0 writeFile is called with its stdout.
RunCodegen(out) ==
  /\ codegenRuns' = codegenRuns + 1
  /\ getDeps' = out
  /\ IF StatusFailed(out)
       THEN /\ built' = IF out.stderr = NullBuffer
                          THEN [kind |-> "TypeError", text |-> "toString of null",
                                children |-> <<>>]
                          ELSE [kind |-> "FirebaseError", text |-> "Failed to run codegen",
                                children |-> <<BufferToString(out.stderr)>>]
            /\ buildPc' = "done"
            /\ UNCHANGED writes
       ELSE /\ writes' = writes + 1
            /\ buildPc' = "writeFile"
            /\ UNCHANGED built

\* index.ts:87-103: mkdir settles.  It fails with EEXIST when the directory
\* is there, or with another error; an error whose message matches EEXIST
\* is swallowed and the build goes on to run the command.
MkdirReturn ==
  /\ buildPc = "mkdir"
  /\ \E fault \in MkdirFaults :
       LET err == IF fault # "none" THEN fault
                  ELSE IF autogenDir THEN "EEXIST" ELSE "ok" IN
       /\ mkdirErr' = err
       /\ autogenDir' = IF fault = "ENOENT" THEN FALSE ELSE (autogenDir \/ err = "ok")
       /\ IF err = "ok" \/ IsEEXIST(MkdirMessage(err, sourceDir))
            THEN \E out \in CodegenOutcomes : RunCodegen(out)
            ELSE /\ built' = [kind |-> "FirebaseError",
                              text |-> "Failed to create codegen directory",
                              children |-> <<MkdirMessage(err, sourceDir)>>]
                 /\ buildPc' = "done"
                 /\ UNCHANGED <<codegenRuns, getDeps, writes>>
  /\ UNCHANGED <<sourceDir, mainGo, builds, discoverVars, createVars, releaseVars>>

\* index.ts:103: writeFile settles; it needs the autogen directory.
WriteFileReturn ==
  /\ buildPc = "writeFile"
  /\ buildPc' = "done"
  /\ \/ /\ autogenDir
        /\ mainGo' = BufferToString(getDeps.stdout)
        /\ built' = [kind |-> "resolved", text |-> "", children |-> <<>>]
     \/ /\ built' = [kind |-> "Error", text |-> "writeFile", children |-> <<>>]
        /\ UNCHANGED mainGo
  /\ UNCHANGED <<sourceDir, autogenDir, builds, mkdirErr, codegenRuns, getDeps, writes,
                 discoverVars, createVars, releaseVars>>

BuildNext ==
  \/ Build
  \/ MkdirReturn
  \/ WriteFileReturn

\* Delegate.build, called up to MaxBuilds times in a row.
BuildSpec == BuildInit /\ [][BuildNext]_vars

\* ------------------------------------------------ claims, Delegate.build
\* C14: when the code-generation command does not exit with status 0,
\* build fails with an error carrying the captured stderr and writes
\* nothing to autogen/main.go; main.go is written, with the captured stdout
\* verbatim, only after a status-0 exit.
C14_FailedCodegenWritesNothing ==
  /\ (codegenRuns = 1 /\ getDeps.status # 0) =>
       /\ buildPc = "done"
       /\ built.kind = "FirebaseError"
       /\ built.text = "Failed to run codegen"
       /\ built.children = <<BufferToString(getDeps.stderr)>>
       /\ writes = 0
  /\ writes > 0 => getDeps.status = 0
  /\ built.kind = "resolved" => mainGo = BufferToString(getDeps.stdout)

\* C17: an autogen directory that already exists is no obstacle, the build
\* goes on to run the code-generation command; any other error of mkdir
\* fails the build before the command is invoked.
C17_MkdirIdempotent ==
  /\ mkdirErr = "EEXIST" => codegenRuns = 1
  /\ mkdirErr \notin {"none", "ok", "EEXIST"} =>
       /\ buildPc = "done"
       /\ built.kind = "FirebaseError"
       /\ built.text = "Failed to create codegen directory"
       /\ codegenRuns = 0

\* ================================================= hosting release()
\* release.ts.  needProjectNumber, convertConfig and the two REST calls are
\* asynchronous: each is a call step and a later settle step, which may
\* fulfil or reject.

MaxDeploys == 2

ProjectNumber == "12345"

SiteOf(i) == "site" \o ToString(i)
VersionOf(i) == "sites/" \o SiteOf(i) \o "/versions/1"

\* A deploy of context.hosting.deploys, as far as release reads it.
DeployChoices(i) ==
  { [site |-> SiteOf(i), version |-> v] : v \in {Undefined, "", VersionOf(i)} }

DeployLists ==
  UNION { { d \in [1..n -> UNION {DeployChoices(i) : i \in 1..n}] :
              \A i \in 1..n : d[i] \in DeployChoices(i) } : n \in 0..MaxDeploys }

\* context.hosting: absent, present without a deploys list, or present with
\* a list (which may be empty).
HostingChoices ==
  { [present |-> FALSE, hasDeploys |-> FALSE, deploys |-> <<>>],
    [present |-> TRUE, hasDeploys |-> FALSE, deploys |-> <<>>] }
  \cup { [present |-> TRUE, hasDeploys |-> TRUE, deploys |-> d] : d \in DeployLists }

HostingChannelChoices == {Undefined, "live", "preview"}

\* release.ts:15: !context.hosting || !context.hosting.deploys
NothingToReleaseNever(h) == FALSE

NothingToRelease(h) == ~h.present \/ ~h.hasDeploys

\* release.ts:43-46
ChannelSegment(channel) ==
  IF Truthy(channel) /\ channel # "live" THEN "/channels/" \o channel ELSE ""

\* release.ts:36: the PATCH that finalizes the version.
Patch(deploy) ==
  [method |-> "PATCH", path |-> "/" \o deploy.version,
   status |-> "FINALIZED", versionName |-> ""]

\* release.ts:51-55: the POST that creates the release.
Post(deploy, channel) ==
  [method |-> "POST",
   path |-> "/projects/" \o ProjectNumber \o "/sites/" \o deploy.site
              \o ChannelSegment(channel) \o "/releases",
   status |-> "", versionName |-> deploy.version]

\* await: the callback goes on past an awaited promise only when that
\* promise is fulfilled; a rejection is thrown out of the callback.
ContinuesAlways(ok) == TRUE

Continues(ok) == ok

\* release.ts:22: Promise.all over the promises of the callbacks rejects as
\* soon as one of them rejects and is fulfilled once all are.
PromiseAllSettled(dpc) ==
  IF \A i \in DOMAIN dpc : dpc[i] \in {"done", "failed"} THEN "resolved" ELSE "pending"

PromiseAll(dpc) ==
  IF \E i \in DOMAIN dpc : dpc[i] = "failed" THEN "rejected"
  ELSE IF \A i \in DOMAIN dpc : dpc[i] = "done" THEN "resolved"
  ELSE "pending"

\* release.ts:22 and 60: release settles as Promise.all does, once.
SettleRelease ==
  /\ released' = IF released # "pending" THEN released ELSE PromiseAll(deployPc')
  /\ releasePc' = IF released' # "pending" THEN "done" ELSE releasePc

ReleaseInit ==
  /\ DiscoverIdle /\ CreateIdle /\ BuildIdle
  /\ hosting \in HostingChoices
  /\ hostingChannel \in HostingChannelChoices
  /\ releasePc = "idle"
  /\ lookups = 0
  /\ deployPc = <<>>
  /\ patches = <<>>
  /\ posts = <<>>
  /\ order = <<>>
  /\ released = "pending"

\* release.ts:14-19: release is called; it returns at once when there is
\* nothing to release and otherwise asks for the project number.
Release ==
  /\ releasePc = "idle"
  /\ IF NothingToRelease(hosting)
       THEN /\ released' = "resolved"
            /\ releasePc' = "done"
            /\ UNCHANGED lookups
       ELSE /\ lookups' = lookups + 1
            /\ releasePc' = "needProjectNumber"
            /\ UNCHANGED released
  /\ UNCHANGED <<hosting, hostingChannel, deployPc, patches, posts, order,
                 discoverVars, createVars, buildVars>>

\* release.ts:19-32: needProjectNumber settles.  On success map runs every
\* callback up to its first await: a deploy without a version throws, the
\* others call convertConfig.
ProjectNumberReturn ==
  /\ releasePc = "needProjectNumber"
  /\ \E ok \in BOOLEAN :
       IF Continues(ok)
         THEN /\ deployPc' = [i \in DOMAIN hosting.deploys |->
                                IF Truthy(hosting.deploys[i].version)
                                  THEN "convertConfig" ELSE "failed"]
              /\ patches' = [i \in DOMAIN hosting.deploys |-> "none"]
              /\ posts' = [i \in DOMAIN hosting.deploys |-> "none"]
              /\ releasePc' = IF PromiseAll(deployPc') # "pending" THEN "done" ELSE "all"
              /\ released' = PromiseAll(deployPc')
         ELSE /\ released' = "rejected"
              /\ releasePc' = "done"
              /\ UNCHANGED <<deployPc, patches, posts>>
  /\ UNCHANGED <<hosting, hostingChannel, lookups, order,
                 discoverVars, createVars, buildVars>>

\* release.ts:32-36: convertConfig settles; the callback issues the PATCH.
ConvertConfigReturn(i) ==
  /\ i \in DOMAIN deployPc
  /\ deployPc[i] = "convertConfig"
  /\ \E ok \in BOOLEAN :
       IF Continues(ok)
         THEN /\ deployPc' = [deployPc EXCEPT ![i] = "patch"]
              /\ patches' = [patches EXCEPT ![i] = "pending"]
              /\ order' = Append(order, Patch(hosting.deploys[i]))
         ELSE /\ deployPc' = [deployPc EXCEPT ![i] = "failed"]
              /\ UNCHANGED <<patches, order>>
  /\ SettleRelease
  /\ UNCHANGED <<hosting, hostingChannel, lookups, posts,
                 discoverVars, createVars, buildVars>>

\* release.ts:36-55: the PATCH settles; the callback issues the POST.
PatchReturn(i) ==
  /\ i \in DOMAIN deployPc
  /\ deployPc[i] = "patch"
  /\ \E ok \in BOOLEAN :
       /\ patches' = [patches EXCEPT ![i] = IF ok THEN "ok" ELSE "failed"]
       /\ IF Continues(ok)
            THEN /\ deployPc' = [deployPc EXCEPT ![i] = "post"]
                 /\ posts' = [posts EXCEPT ![i] = "pending"]
                 /\ order' = Append(order, Post(hosting.deploys[i], hostingChannel))
            ELSE /\ deployPc' = [deployPc EXCEPT ![i] = "failed"]
                 /\ UNCHANGED <<posts, order>>
  /\ SettleRelease
  /\ UNCHANGED <<hosting, hostingChannel, lookups,
                 discoverVars, createVars, buildVars>>

\* release.ts:51-58: the POST settles; the callback returns.
PostReturn(i) ==
  /\ i \in DOMAIN deployPc
  /\ deployPc[i] = "post"
  /\ \E ok \in BOOLEAN :
       /\ posts' = [posts EXCEPT ![i] = IF ok THEN "ok" ELSE "failed"]
       /\ deployPc' = [deployPc EXCEPT ![i] = IF Continues(ok) THEN "done" ELSE "failed"]
  /\ SettleRelease
  /\ UNCHANGED <<hosting, hostingChannel, lookups, patches, order,
                 discoverVars, createVars, buildVars>>

ReleaseNext ==
  \/ Release
  \/ ProjectNumberReturn
  \/ \E i \in 1..MaxDeploys : ConvertConfigReturn(i)
  \/ \E i \in 1..MaxDeploys : PatchReturn(i)
  \/ \E i \in 1..MaxDeploys : PostReturn(i)

ReleaseSpec == ReleaseInit /\ [][ReleaseNext]_vars

\* ------------------------------------------------ claims, release()
Deploys == DOMAIN deployPc

\* C18: the release POST of a deploy is issued only after the finalize PATCH
\* of that deploy's version has succeeded, and names that version; a deploy
\* without a version issues neither call.
C18_ReleaseOnlyAfterFinalize ==
  /\ \A i \in Deploys :
       /\ posts[i] # "none" => patches[i] = "ok"
       /\ ~Truthy(hosting.deploys[i].version) =>
            patches[i] = "none" /\ posts[i] = "none"
  /\ \A k \in DOMAIN order :
       order[k].method = "POST" =>
         \E j \in 1..(k - 1) :
           /\ order[j].method = "PATCH"
           /\ order[j].path = "/" \o order[k].versionName

C18_Witness ==
  \E i \in Deploys :
    /\ posts[i] = "ok"
    /\ \E j \in Deploys : patches[j] = "failed" /\ posts[j] = "none"

\* C19: release resolves only if every deploy had a version and both its
\* PATCH and its POST succeeded; it rejects as soon as a deploy lacks a
\* version or one of its calls fails; the other deploys are not cancelled
\* by the rejection, their pending calls still settle and their next calls
\* are still issued.
C19_AllOrRejectWithoutCancel ==
  /\ (released = "resolved" /\ lookups > 0) =>
       /\ Deploys = DOMAIN hosting.deploys
       /\ \A i \in Deploys :
            /\ Truthy(hosting.deploys[i].version)
            /\ patches[i] = "ok"
            /\ posts[i] = "ok"
  /\ (\E i \in Deploys : deployPc[i] = "failed") => released = "rejected"
  /\ \A i \in Deploys :
       released = "rejected" =>
         /\ deployPc[i] = "convertConfig" =>
              ENABLED (ConvertConfigReturn(i) /\ patches'[i] = "pending")
         /\ deployPc[i] = "patch" =>
              ENABLED (PatchReturn(i) /\ posts'[i] = "pending")
         /\ deployPc[i] = "post" =>
              ENABLED (PostReturn(i) /\ posts'[i] = "ok")

\* A rejected release with one site released, by a POST issued after the
\* rejection, and another site not released.
C19_Witness ==
  /\ released = "rejected"
  /\ \E i, j \in Deploys :
       /\ ~Truthy(hosting.deploys[j].version)
       /\ deployPc[j] = "failed"
       /\ posts[i] = "ok"

\* C20: with context.hosting absent or without a deploys list, release
\* returns without looking up the project number and without any REST
\* call.
C20_NoOpWithoutDeploys ==
  (releasePc # "idle" /\ (~hosting.present \/ ~hosting.hasDeploys)) =>
    /\ released = "resolved"
    /\ releasePc = "done"
    /\ lookups = 0
    /\ order = <<>>
    /\ deployPc = <<>>

C20_Witness ==
  /\ releasePc = "done"
  /\ hosting.present
  /\ ~hosting.hasDeploys

====
